---------------------------- MODULE Spec2Model ----------------------------
(***************************************************************************)
(* A model of coursera_ibm_stock_revenue_mac.py: the revenue-table         *)
(* normalizer clean_revenue_table with its helper _norm_date, the page     *)
(* parser get_revenue_table, and the driver main.                          *)
(*                                                                         *)
(* Text is a sequence of one-character strings.  A DataFrame is a record   *)
(* [isNone, cols, rows]: cols the column labels, rows the rows, each a     *)
(* sequence of cells.  A cell is text, a missing value (None or NaN), a    *)
(* number or an infinity.  A number is m * 10^(-e) in canonical form (no   *)
(* trailing zero in the fraction), with f telling whether its column has   *)
(* dtype float64 (TRUE) or int64 (FALSE).                                  *)
(***************************************************************************)
EXTENDS Integers, Sequences, FiniteSets, TLC

VARIABLES
    raw, phase, out, out2,          \* clean_revenue_table: input, progress, results
    cell, ntok, normed, dphase,     \* _norm_date: input text, its number of pieces,
                                    \* result, progress
    doc, net_ok, handed, result, gphase,   \* get_revenue_table: page, HTTP outcome,
                                    \* the frame handed to clean_revenue_table, result
    pc, log, files, status, failed, outdir, env   \* main

vars == <<raw, phase, out, out2, cell, ntok, normed, dphase, doc, net_ok, handed, result, gphase,
          pc, log, files, status, failed, outdir, env>>

cleanVars == <<raw, phase, out, out2>>
dateVars == <<cell, ntok, normed, dphase>>
getVars == <<doc, net_ok, handed, result, gphase>>
mainVars == <<pc, log, files, status, failed, outdir, env>>

-----------------------------------------------------------------------------
(* Text helpers *)

Digits == <<"0", "1", "2", "3", "4", "5", "6", "7", "8", "9">>

UpperLetters == <<"A", "B", "C", "D", "E", "F", "G", "H", "I", "J", "K", "L", "M",
                  "N", "O", "P", "Q", "R", "S", "T", "U", "V", "W", "X", "Y", "Z">>

LowerLetters == <<"a", "b", "c", "d", "e", "f", "g", "h", "i", "j", "k", "l", "m",
                  "n", "o", "p", "q", "r", "s", "t", "u", "v", "w", "x", "y", "z">>

IsDigit(c) == \E i \in 1..Len(Digits) : Digits[i] = c

DigitVal(c) == (CHOOSE i \in 1..Len(Digits) : Digits[i] = c) - 1

IsSpace(c) == c \in {" ", "\t", "\n"}

\* str.lower(), one character
LowerChar(c) ==
    IF \E i \in 1..Len(UpperLetters) : UpperLetters[i] = c
    THEN LowerLetters[CHOOSE i \in 1..Len(UpperLetters) : UpperLetters[i] = c]
    ELSE c

\* str.lower()
Lower(s) == [i \in 1..Len(s) |-> LowerChar(s[i])]

\* sub in s
Contains(s, sub) ==
    \E i \in 1..(Len(s) - Len(sub) + 1) : SubSeq(s, i, i + Len(sub) - 1) = sub

\* str.replace(ch, "", regex=False) for a one-character ch
RemoveChar(s, ch) == SelectSeq(s, LAMBDA c : c # ch)

\* str.strip()
Strip(s) ==
    IF \A i \in 1..Len(s) : IsSpace(s[i])
    THEN <<>>
    ELSE LET lo == CHOOSE i \in 1..Len(s) :
                       /\ ~IsSpace(s[i])
                       /\ \A j \in 1..(i - 1) : IsSpace(s[j])
             hi == CHOOSE i \in 1..Len(s) :
                       /\ ~IsSpace(s[i])
                       /\ \A j \in (i + 1)..Len(s) : IsSpace(s[j])
         IN  SubSeq(s, lo, hi)

RECURSIVE DigitsValue(_)
\* the natural number a sequence of digits denotes
DigitsValue(ds) ==
    IF ds = <<>> THEN 0
    ELSE 10 * DigitsValue(SubSeq(ds, 1, Len(ds) - 1)) + DigitVal(ds[Len(ds)])

RECURSIVE DigitsOf(_)
\* the decimal digits of a natural number
DigitsOf(n) ==
    IF n < 10 THEN <<Digits[n + 1]>>
    ELSE DigitsOf(n \div 10) \o <<Digits[(n % 10) + 1]>>

RECURSIVE Pow10(_)
Pow10(k) == IF k = 0 THEN 1 ELSE 10 * Pow10(k - 1)

Abs(n) == IF n < 0 THEN -n ELSE n

-----------------------------------------------------------------------------
(* Cells and column labels *)

Text(s) == [k |-> "text", s |-> s]
NoneCell == [k |-> "none"]
NaN == [k |-> "nan"]
Num(m, e, f) == [k |-> "num", m |-> m, e |-> e, f |-> f]
Inf(neg) == [k |-> "inf", neg |-> neg, f |-> TRUE]

StrLabel(s) == [k |-> "str", s |-> s]
IntLabel(n) == [k |-> "int", n |-> n]

\* pandas' isna
IsNA(c) == c.k \in {"none", "nan"}

RECURSIVE Canon(_, _)
\* m * 10^(-e) without trailing zeros in the fraction
Canon(m, e) == IF e > 0 /\ m % 10 = 0 THEN Canon(m \div 10, e - 1) ELSE <<m, e>>

D_None == <<"N", "o", "n", "e">>
D_nan == <<"n", "a", "n">>
D_inf == <<"i", "n", "f">>
D_infinity == <<"i", "n", "f", "i", "n", "i", "t", "y">>

\* repr of a float64 m * 10^(-e): at least one digit on each side of the point
FormatFloat(m, e) ==
    LET a == Abs(m)
        ip == a \div Pow10(e)
        fp == a % Pow10(e)
        fd == DigitsOf(fp)
        pad == [i \in 1..(e - Len(fd)) |-> "0"]
    IN  (IF m < 0 THEN <<"-">> ELSE <<>>) \o DigitsOf(ip) \o <<".">> \o
        (IF e = 0 THEN <<"0">> ELSE pad \o fd)

\* str(x) of one cell, as Series.astype(str) and str(s) apply it
StrOf(c) ==
    CASE c.k = "text" -> c.s
      [] c.k = "none" -> D_None
      [] c.k = "nan" -> D_nan
      [] c.k = "inf" -> (IF c.neg THEN <<"-">> ELSE <<>>) \o D_inf
      [] c.k = "num" ->
            IF c.f THEN FormatFloat(c.m, c.e)
            ELSE (IF c.m < 0 THEN <<"-">> ELSE <<>>) \o DigitsOf(Abs(c.m))

\* str(c) of a column label
LabelStr(l) == IF l.k = "str" THEN l.s ELSE DigitsOf(l.n)

AllDigits(x) == \A i \in 1..Len(x) : IsDigit(x[i])

\* the number with these integer and fraction digits, NaN when they are not
\* digits or there is none
ParseParts(neg, ip, fp, hasDot) ==
    IF AllDigits(ip) /\ AllDigits(fp) /\ Len(ip) + Len(fp) > 0
    THEN Num((IF neg THEN -1 ELSE 1) * Canon(DigitsValue(ip \o fp), Len(fp))[1],
             Canon(DigitsValue(ip \o fp), Len(fp))[2], hasDot)
    ELSE NaN

\* Digits only, as int() or str.isdigit() would have it: a mutation of ParseBody.
ParseBodyIntOnly(neg, body) == ParseParts(neg, body, <<>>, FALSE)

\* the text after the sign: inf or infinity in any case, or digits with at most
\* one decimal point
ParseBody(neg, body) ==
    IF Lower(body) \in {D_inf, D_infinity} THEN Inf(neg)
    ELSE IF \E i \in 1..Len(body) : body[i] = "."
    THEN ParseParts(neg,
                    SubSeq(body, 1, (CHOOSE i \in 1..Len(body) : body[i] = "." /\
                                        \A j \in 1..(i - 1) : body[j] # ".") - 1),
                    SubSeq(body, (CHOOSE i \in 1..Len(body) : body[i] = "." /\
                                     \A j \in 1..(i - 1) : body[j] # ".") + 1, Len(body)),
                    TRUE)
    ELSE ParseParts(neg, body, <<>>, FALSE)

\* an optional sign, then the body
ParseSigned(t) ==
    IF t # <<>> /\ t[1] \in {"+", "-"}
    THEN ParseBody(t[1] = "-", SubSeq(t, 2, Len(t)))
    ELSE ParseBody(FALSE, t)

\* pd.to_numeric(..., errors="coerce") on one string: surrounding whitespace is
\* ignored; an optional sign, then digits with an optional decimal point, or
\* inf / infinity in any case; "nan" and anything else give NaN.  The f of the
\* result says whether this one value forces float64.
ParseNum(s) == ParseSigned(Strip(s))

-----------------------------------------------------------------------------
(* _norm_date: re.search(r"(\d{4}-\d{2}-\d{2}|\d{4}-\d{2}|\d{4})", s) *)

\* One alternative of the pattern: "d" stands for \d, any other entry for itself.
PatYMD == <<"d", "d", "d", "d", "-", "d", "d", "-", "d", "d">>
PatYM == <<"d", "d", "d", "d", "-", "d", "d">>
PatY == <<"d", "d", "d", "d">>

\* The alternatives in the wrong order: a mutation of DateAlternatives.
DateAlternativesShortFirst == <<PatY, PatYM, PatYMD>>

\* The alternatives of the pattern, in the order the pattern lists them.
DateAlternatives == <<PatYMD, PatYM, PatY>>

\* whether alternative pat matches s at position i (1-based)
MatchAt(s, i, pat) ==
    /\ i + Len(pat) - 1 <= Len(s)
    /\ \A j \in 1..Len(pat) :
          IF pat[j] = "d" THEN IsDigit(s[i + j - 1]) ELSE s[i + j - 1] = pat[j]

\* the first alternative that matches s at position p
FirstAlternativeAt(s, p, alts) ==
    alts[CHOOSE x \in 1..Len(alts) :
            /\ MatchAt(s, p, alts[x])
            /\ \A y \in 1..(x - 1) : ~MatchAt(s, p, alts[y])]

MatchGroup(s, p, pat) == [found |-> TRUE, group |-> SubSeq(s, p, p + Len(pat) - 1), start |-> p]

\* the match at position p
MatchFrom(s, p, alts) == MatchGroup(s, p, FirstAlternativeAt(s, p, alts))

SearchFrom(s, alts, hits) ==
    IF hits = {} THEN [found |-> FALSE, group |-> <<>>, start |-> 0]
    ELSE MatchFrom(s, CHOOSE i \in hits : \A j \in hits : i <= j, alts)

\* re.search: the leftmost position where some alternative matches and, there,
\* the first alternative that matches.
ReSearch(s, alts) ==
    SearchFrom(s, alts, {i \in 1..Len(s) : \E a \in 1..Len(alts) : MatchAt(s, i, alts[a])})

\* _norm_date(s), s already a string
_norm_date(s) ==
    LET m == ReSearch(s, DateAlternatives)
    IN  IF m.found THEN m.group ELSE s

-----------------------------------------------------------------------------
(* clean_revenue_table *)

D_date == <<"d", "a", "t", "e">>
D_period == <<"p", "e", "r", "i", "o", "d">>
D_revenue == <<"r", "e", "v", "e", "n", "u", "e">>
D_Date == <<"D", "a", "t", "e">>
D_Revenue == <<"R", "e", "v", "e", "n", "u", "e">>

CanonicalCols == <<StrLabel(D_Date), StrLabel(D_Revenue)>>

\* pd.DataFrame(columns=["Date", "Revenue"])
EmptyRevenueTable == [isNone |-> FALSE, cols |-> CanonicalCols, rows |-> <<>>]

NoneDF == [isNone |-> TRUE, cols |-> <<>>, rows |-> <<>>]

Raised(e) == [exc |-> e]
IsRaised(x) == "exc" \in DOMAIN x

NCols(df) == Len(df.cols)

\* The guard without df.empty: a mutation of IsEmptyInput.
IsEmptyInputNoneOnly(df) == df.isNone

\* df is None or df.empty
IsEmptyInput(df) == df.isNone \/ Len(df.rows) = 0 \/ NCols(df) = 0

\* cols_lower
cols_lower(df) == [i \in 1..NCols(df) |-> Lower(LabelStr(df.cols[i]))]

\* next((i for i, c in enumerate(...) if pred(c)), dflt), 0-based
FirstIndex(names, Pred(_), dflt) ==
    IF \E i \in 1..Len(names) : Pred(names[i])
    THEN (CHOOSE i \in 1..Len(names) :
              Pred(names[i]) /\ \A j \in 1..(i - 1) : ~Pred(names[j])) - 1
    ELSE dflt

date_idx(df) ==
    FirstIndex(cols_lower(df), LAMBDA c : Contains(c, D_date) \/ Contains(c, D_period), 0)

rev_idx(df) ==
    FirstIndex(cols_lower(df), LAMBDA c : Contains(c, D_revenue),
               IF NCols(df) > 1 THEN 1 ELSE 0)

\* df.iloc[:, [i, j]] with df.columns = ["Date", "Revenue"]; a position outside
\* the frame raises IndexError.
Iloc2(df, i, j) ==
    IF i >= NCols(df) \/ j >= NCols(df) THEN Raised("IndexError")
    ELSE [isNone |-> FALSE, cols |-> CanonicalCols,
          rows |-> [r \in 1..Len(df.rows) |-> <<df.rows[r][i + 1], df.rows[r][j + 1]>>]]

\* df.dropna(how="all")
DropNaAll(rows) == SelectSeq(rows, LAMBDA r : ~(\A i \in 1..Len(r) : IsNA(r[i])))

\* .astype(str).str.replace("$", "").str.replace(",", "").str.strip(), one cell
StripRevenue(c) == Strip(RemoveChar(RemoveChar(StrOf(c), "$"), ","))

\* df[df["Revenue"] != ""]
DropBlankRevenue(rows) == SelectSeq(rows, LAMBDA r : r[2].s # <<>>)

\* the parsed column under one dtype
WithDtype(rows, parsed, isFloat) ==
    [r \in 1..Len(rows) |->
        <<rows[r][1],
          IF parsed[r].k = "num" THEN Num(parsed[r].m, parsed[r].e, isFloat) ELSE parsed[r]>>]

ColumnDtype(rows, parsed) ==
    WithDtype(rows, parsed, \E r \in 1..Len(parsed) : parsed[r].k # "num" \/ parsed[r].f)

\* pd.to_numeric(df["Revenue"], errors="coerce"): each string parsed, and one
\* dtype for the column: float64 as soon as one value is NaN, infinite or has a
\* decimal point, int64 otherwise.
to_numeric(rows) == ColumnDtype(rows, [r \in 1..Len(rows) |-> ParseNum(rows[r][2].s)])

\* Unparsed revenue kept as zero: a mutation of DropNaRevenue.
FillNaRevenue(rows) ==
    [r \in 1..Len(rows) |->
        IF IsNA(rows[r][2]) THEN <<rows[r][1], Num(0, 0, TRUE)>> ELSE rows[r]]

\* The unparsed rows left in: a mutation of DropNaRevenue.
KeepNaRevenue(rows) == rows

\* df.dropna(subset=["Revenue"])
DropNaRevenue(rows) == SelectSeq(rows, LAMBDA r : ~IsNA(r[2]))

\* df["Date"].astype(str).map(_norm_date)
NormDates(rows) == [r \in 1..Len(rows) |-> <<Text(_norm_date(StrOf(rows[r][1]))), rows[r][2]>>]

\* the revenue column stripped, row by row
StripRevenueColumn(rows) ==
    [r \in 1..Len(rows) |-> <<rows[r][1], Text(StripRevenue(rows[r][2]))>>]

\* lines 55-72, on the two selected columns
CleanSelected(sel) ==
    IF IsRaised(sel) THEN sel
    ELSE [isNone |-> FALSE, cols |-> CanonicalCols,
          rows |-> NormDates(DropNaRevenue(to_numeric(DropBlankRevenue(
                       StripRevenueColumn(DropNaAll(sel.rows))))))]

clean_revenue_table(df) ==
    IF IsEmptyInput(df) THEN EmptyRevenueTable
    ELSE CleanSelected(Iloc2(df, date_idx(df), rev_idx(df)))

-----------------------------------------------------------------------------
(* Inputs of clean_revenue_table *)

MaxRows == 2

T_money == <<"$", "1", ",", "2", "3", "4", ",", "5", "0", "0">>
T_abc == <<"a", "b", "c">>
T_minus5 == <<"-", "5">>
T_year_padded == <<" ", "2", "0", "2", "1", " ">>
T_decimal == <<"1", ".", "5", "0">>
T_iso == <<"2", "0", "2", "1", "-", "0", "9", "-", "3", "0">>
T_us == <<"S", "e", "p", " ", "3", "0", ",", " ", "2", "0", "2", "1">>
T_total_revenue == <<"T", "o", "t", "a", "l", " ", "R", "e", "v", "e", "n", "u", "e">>
T_fiscal_period == <<"F", "i", "s", "c", "a", "l", " ", "P", "e", "r", "i", "o", "d">>
T_REVENUE == <<"R", "E", "V", "E", "N", "U", "E">>
T_Id == <<"I", "d">>

RevCells == {Text(T_money), Text(<<>>), Text(T_abc), Text(T_minus5), Text(T_year_padded),
             Text(T_decimal), Text(D_inf), NoneCell}

\* Date cells: one the pattern shortens, one it leaves alone, one missing.
DateCellsUS == {Text(T_us), NoneCell}
DateCellsISO == {Text(T_iso), NoneCell}
DateCellsText == {Text(T_us), Text(T_iso)}

OtherCells == {Text(T_Id)}

\* The shapes of input: the labels of the columns and, per column, the cells a
\* row may hold there.
Layouts ==
    { [cols |-> <<StrLabel(D_Date), StrLabel(D_Revenue)>>, pools |-> <<DateCellsUS, RevCells>>],
      [cols |-> <<StrLabel(T_total_revenue), StrLabel(T_fiscal_period)>>,
       pools |-> <<RevCells, DateCellsISO>>],
      [cols |-> <<IntLabel(0), IntLabel(1)>>, pools |-> <<DateCellsText, RevCells>>],
      [cols |-> <<StrLabel(T_Id), StrLabel(D_Date), StrLabel(T_REVENUE)>>,
       pools |-> <<OtherCells, DateCellsISO, RevCells>>],
      [cols |-> <<IntLabel(0)>>, pools |-> <<RevCells>>],
      [cols |-> <<>>, pools |-> <<>>] }

PoolsOf(cols) == (CHOOSE l \in Layouts : l.cols = cols).pools

\* all rows a frame with these columns may hold
RowsOf(cols) ==
    LET pools == PoolsOf(cols)
    IN  CASE Len(cols) = 0 -> {<<>>}
          [] Len(cols) = 1 -> {<<a>> : a \in pools[1]}
          [] Len(cols) = 2 -> {<<a, b>> : a \in pools[1], b \in pools[2]}
          [] Len(cols) = 3 -> {<<a, b, c>> : a \in pools[1], b \in pools[2], c \in pools[3]}

IdleClean == raw = NoneDF /\ phase = "idle" /\ out = NoneDF /\ out2 = NoneDF
IdleDate == cell = <<>> /\ ntok = 0 /\ normed = <<>> /\ dphase = "idle"

InitCleanVars ==
    /\ raw \in {NoneDF} \cup {[isNone |-> FALSE, cols |-> l.cols, rows |-> <<>>] : l \in Layouts}
    /\ phase = "build"
    /\ out = NoneDF
    /\ out2 = NoneDF

\* the caller's frame gains a row
AddRow ==
    /\ phase = "build"
    /\ ~raw.isNone
    /\ Len(raw.rows) < MaxRows
    /\ \E r \in RowsOf(raw.cols) : raw' = [raw EXCEPT !.rows = Append(@, r)]
    /\ UNCHANGED <<phase, out, out2, dateVars, getVars, mainVars>>

\* out = clean_revenue_table(raw)
Clean ==
    /\ phase = "build"
    /\ out' = clean_revenue_table(raw)
    /\ phase' = "cleaned"
    /\ UNCHANGED <<raw, out2, dateVars, getVars, mainVars>>

\* out2 = clean_revenue_table(out)
CleanAgain ==
    /\ phase = "cleaned"
    /\ ~IsRaised(out)
    /\ out2' = clean_revenue_table(out)
    /\ phase' = "recleaned"
    /\ UNCHANGED <<raw, out, dateVars, getVars, mainVars>>

-----------------------------------------------------------------------------
(* Inputs of _norm_date *)

MaxTokens == 4

\* A date cell is built from these pieces.
DateTokens == {<<"2", "0", "2", "1">>, <<"-", "0", "9">>, <<"-", "3", "0">>, <<" ">>,
               <<"S">>, <<"1">>, <<"-">>}

InitDateVars == cell = <<>> /\ ntok = 0 /\ normed = <<>> /\ dphase = "build"

\* the cell text gains a piece
AddToken ==
    /\ dphase = "build"
    /\ ntok < MaxTokens
    /\ \E t \in DateTokens : cell' = cell \o t
    /\ ntok' = ntok + 1
    /\ UNCHANGED <<normed, dphase, cleanVars, getVars, mainVars>>

\* normed = _norm_date(cell)
Normalize ==
    /\ dphase = "build"
    /\ normed' = _norm_date(cell)
    /\ dphase' = "done"
    /\ UNCHANGED <<cell, ntok, cleanVars, getVars, mainVars>>

-----------------------------------------------------------------------------
(* get_revenue_table *)

\* a frame of n columns labelled 0, 1, ...; shorter rows padded with None
PaddedFrame(rows, n) ==
    [isNone |-> FALSE,
     cols |-> [i \in 1..n |-> IntLabel(i - 1)],
     rows |-> [r \in 1..Len(rows) |->
                  [i \in 1..n |-> IF i <= Len(rows[r]) THEN Text(rows[r][i]) ELSE NoneCell]]]

\* pd.DataFrame(rows) for a list of lists of strings: as many columns as the
\* longest row has cells.
FrameOfRows(rows) ==
    IF rows = <<>> THEN PaddedFrame(rows, 0)
    ELSE PaddedFrame(rows, CHOOSE x \in {Len(rows[r]) : r \in 1..Len(rows)} :
                               \A r \in 1..Len(rows) : Len(rows[r]) <= x)

\* if ths and len(ths) == df.shape[1]: df.columns = ths
WithHeader(df, ths) ==
    IF ths # <<>> /\ Len(ths) = NCols(df)
    THEN [df EXCEPT !.cols = [i \in 1..Len(ths) |-> StrLabel(ths[i])]]
    ELSE df

\* The branch taken when soup.find("table", {"class": "table"}) finds a table:
\* ths the header cell texts, trs the td texts of each tr.
SiteFrame(site) == WithHeader(FrameOfRows(SelectSeq(site.trs, LAMBDA r : r # <<>>)), site.ths)

\* pd.read_html(r.text): the frames of the page's tables; a page without any
\* table raises ValueError("No tables found").
read_html(tables) ==
    IF tables = <<>> THEN [raised |-> TRUE, exc |-> "ValueError", tables |-> <<>>]
    ELSE [raised |-> FALSE, exc |-> "", tables |-> tables]

\* t.shape[1] >= 2 and any("revenue" in str(c).lower() for c in t.columns)
Qualifies(t) ==
    /\ NCols(t) >= 2
    /\ \E i \in 1..NCols(t) : Contains(Lower(LabelStr(t.cols[i])), D_revenue)

\* max(all_tables, key=lambda t: t.shape[1]): the first of the widest
Widest(all_tables) ==
    all_tables[CHOOSE i \in 1..Len(all_tables) :
                  /\ \A j \in 1..Len(all_tables) : NCols(all_tables[j]) <= NCols(all_tables[i])
                  /\ \A j \in 1..(i - 1) : NCols(all_tables[j]) < NCols(all_tables[i])]

\* Only the first table is examined: a mutation of candidates.
CandidatesFirstOnly(all_tables) ==
    LET c == IF all_tables # <<>> /\ Qualifies(all_tables[1]) THEN <<all_tables[1]>> ELSE <<>>
    IN  IF c = <<>> /\ all_tables # <<>> THEN <<Widest(all_tables)>> ELSE c

\* candidates, after the loop and the fallback to the widest table
candidates(all_tables) ==
    LET c == SelectSeq(all_tables, Qualifies)
    IN  IF c = <<>> /\ all_tables # <<>> THEN <<Widest(all_tables)>> ELSE c

\* clean_revenue_table(df), with the frame it was given
Handing(df) == [handed |-> df, result |-> clean_revenue_table(df)]

\* lines 93-101, on what pd.read_html returned
FromCandidates(cands) ==
    IF cands = <<>> THEN [handed |-> NoneDF, result |-> EmptyRevenueTable]
    ELSE Handing(cands[1])

FromRead(read) ==
    IF read.raised THEN [handed |-> NoneDF, result |-> Raised(read.exc)]
    ELSE FromCandidates(candidates(read.tables))

\* get_revenue_table(url) on a page: [handed, result], handed the frame given
\* to clean_revenue_table (NoneDF when none is).
get_revenue_table(page, ok) ==
    IF ~ok THEN [handed |-> NoneDF, result |-> Raised("HTTPError")]
    ELSE IF page.site.present THEN Handing(SiteFrame(page.site))
    ELSE FromRead(read_html(page.tables))

-----------------------------------------------------------------------------
(* Inputs of get_revenue_table *)

MaxTables == 3

T_d1 == <<"2", "0", "2", "3", "-", "1", "2", "-", "3", "1">>
T_d2 == <<"2", "0", "2", "3", "-", "0", "9", "-", "3", "0">>
T_1000 == <<"$", "1", ",", "0", "0", "0">>
T_Year == <<"Y", "e", "a", "r">>
T_Sales == <<"S", "a", "l", "e", "s">>
T_Notes == <<"N", "o", "t", "e", "s">>
T_caption == <<"T", "e", "s", "l", "a", " ", "R", "e", "v", "e", "n", "u", "e">>

NoSite == [present |-> FALSE, ths |-> <<>>, trs |-> <<>>]

\* Tables carrying the site's class: a header that fits, a one-cell caption
\* header over two columns, a table without rows, and rows of unequal length.
SiteTables ==
    { [present |-> TRUE, ths |-> <<D_Date, D_Revenue>>,
       trs |-> << <<>>, <<T_d1, T_1000>>, <<<<>>, <<>>>>, <<T_d2, T_abc>> >>],
      [present |-> TRUE, ths |-> <<T_caption>>,
       trs |-> << <<>>, <<T_d1, T_1000>>, <<T_d2, T_money>> >>],
      [present |-> TRUE, ths |-> <<D_Date, D_Revenue>>, trs |-> << <<>> >>],
      [present |-> TRUE, ths |-> <<>>, trs |-> << <<T_d1, T_1000>>, <<T_d2>> >>] }

Frame(cols, rows) == [isNone |-> FALSE, cols |-> cols, rows |-> rows]

\* Frames pd.read_html may return for a table of the page.
GenericTables ==
    { Frame(<<StrLabel(T_Year), StrLabel(T_Sales)>>, << <<Num(2021, 0, FALSE), Text(T_money)>> >>),
      Frame(<<StrLabel(D_Date), StrLabel(T_total_revenue)>>, << <<Text(T_iso), Text(T_1000)>> >>),
      Frame(<<StrLabel(D_Revenue)>>, << <<Text(T_1000)>> >>),
      Frame(<<StrLabel(T_Id), StrLabel(D_Date), StrLabel(T_Notes)>>,
            << <<Num(1, 0, FALSE), Text(T_us), NaN>> >>),
      Frame(<<StrLabel(T_fiscal_period), StrLabel(T_REVENUE), StrLabel(T_Id)>>,
            << <<Text(T_d1), Num(15, 1, TRUE), Num(7, 0, FALSE)>> >>) }

NoPage == [site |-> NoSite, tables |-> <<>>]

IdleGet == doc = NoPage /\ net_ok = FALSE /\ handed = NoneDF /\ result = NoneDF
           /\ gphase = "idle"

InitGetVars ==
    /\ doc \in {[site |-> st, tables |-> <<>>] : st \in SiteTables \cup {NoSite}}
    /\ net_ok \in BOOLEAN
    /\ handed = NoneDF
    /\ result = NoneDF
    /\ gphase = "page"

\* the page gains a table without the site's class
AddTable ==
    /\ gphase = "page"
    /\ ~doc.site.present
    /\ Len(doc.tables) < MaxTables
    /\ \E t \in GenericTables : doc' = [doc EXCEPT !.tables = Append(@, t)]
    /\ UNCHANGED <<net_ok, handed, result, gphase, cleanVars, dateVars, mainVars>>

\* result = get_revenue_table(url)
CallGetRevenueTable ==
    /\ gphase = "page"
    /\ \E r \in {get_revenue_table(doc, net_ok)} : handed' = r.handed /\ result' = r.result
    /\ gphase' = "done"
    /\ UNCHANGED <<doc, net_ok, cleanVars, dateVars, mainVars>>

-----------------------------------------------------------------------------
(* The import-time package check and main *)

Tickers == {"TSLA", "GME"}

St(op, tk) == [op |-> op, tk |-> tk]

\* One ticker wholly before the other: a mutation of MainSteps.
MainStepsPerTicker ==
    << St("mkdir", "-"),
       St("stock", "TSLA"), St("head_csv", "TSLA"), St("revenue", "TSLA"), St("tail_csv", "TSLA"),
       St("html", "TSLA"), St("png", "TSLA"),
       St("stock", "GME"), St("head_csv", "GME"), St("revenue", "GME"), St("tail_csv", "GME"),
       St("html", "GME"), St("png", "GME"),
       St("done", "-") >>

\* The statements of main in program order.
MainSteps ==
    << St("mkdir", "-"),
       St("stock", "TSLA"), St("head_csv", "TSLA"), St("revenue", "TSLA"), St("tail_csv", "TSLA"),
       St("stock", "GME"), St("head_csv", "GME"), St("revenue", "GME"), St("tail_csv", "GME"),
       St("html", "TSLA"), St("png", "TSLA"),
       St("html", "GME"), St("png", "GME"),
       St("done", "-") >>

\* the file a step writes
FileOf(op, tk) ==
    CASE op = "head_csv" /\ tk = "TSLA" -> "Q1_tesla_data_head.csv"
      [] op = "tail_csv" /\ tk = "TSLA" -> "Q2_tesla_revenue_tail.csv"
      [] op = "head_csv" /\ tk = "GME" -> "Q3_gme_data_head.csv"
      [] op = "tail_csv" /\ tk = "GME" -> "Q4_gme_revenue_tail.csv"
      [] op = "html" /\ tk = "TSLA" -> "Q5_tesla_dashboard.html"
      [] op = "png" /\ tk = "TSLA" -> "Q5_tesla_dashboard.png"
      [] op = "html" /\ tk = "GME" -> "Q6_gamestop_dashboard.html"
      [] op = "png" /\ tk = "GME" -> "Q6_gamestop_dashboard.png"

\* A failed fetch swallowed: a mutation of OnFetchError.
OnFetchErrorContinue == "running"

\* No try/except around get_stock_data and get_revenue_table: the exception
\* leaves main.
OnFetchError == "raised"

\* No handler around pio.write_image: a mutation of OnPngError.
OnPngErrorPropagate == "raised"

\* except Exception around pio.write_image: reported, and main goes on.
OnPngError == "running"

IdleMain == pc = 0 /\ log = <<>> /\ files = {} /\ status = "idle" /\ failed = St("-", "-")
            /\ outdir = FALSE /\ env = [missing |-> FALSE, net |-> [f \in {} |-> TRUE]]

Fetches == {St(op, tk) : op \in {"stock", "revenue"}, tk \in Tickers}

\* env: whether a required package is missing, and for each fetch whether the
\* network and the server let it succeed.
InitMainVars ==
    /\ pc = 0
    /\ log = <<>>
    /\ files = {}
    /\ status = "running"
    /\ failed = St("-", "-")
    /\ outdir \in BOOLEAN
    /\ env \in [missing : BOOLEAN, net : [Fetches -> BOOLEAN]]

Cur == MainSteps[pc]

AtStep(op) == status = "running" /\ pc \in 1..Len(MainSteps) /\ Cur.op = op

\* lines 18-28: sys.exit(1) when a package is missing, else the script defines
\* its functions and calls main()
CheckPackages ==
    /\ status = "running" /\ pc = 0
    /\ IF env.missing
       THEN status' = "exit1" /\ pc' = pc
       ELSE status' = status /\ pc' = 1
    /\ UNCHANGED <<log, files, failed, outdir, env, cleanVars, dateVars, getVars>>

\* outdir = ensure_output_dir()
ensure_output_dir ==
    /\ AtStep("mkdir")
    /\ outdir' = TRUE
    /\ log' = Append(log, Cur)
    /\ pc' = pc + 1
    /\ UNCHANGED <<files, status, failed, env, cleanVars, dateVars, getVars>>

\* get_stock_data(ticker), get_tesla_revenue(), get_gme_revenue()
Fetch ==
    /\ AtStep("stock") \/ AtStep("revenue")
    /\ IF env.net[Cur]
       THEN /\ log' = Append(log, Cur)
            /\ pc' = pc + 1
            /\ UNCHANGED <<status, failed>>
       ELSE /\ status' = OnFetchError
            /\ failed' = Cur
            /\ pc' = IF OnFetchError = "running" THEN pc + 1 ELSE pc
            /\ UNCHANGED log
    /\ UNCHANGED <<files, outdir, env, cleanVars, dateVars, getVars>>

\* print(...) and frame.head().to_csv(...) / frame.tail().to_csv(...)
WriteCsv ==
    /\ AtStep("head_csv") \/ AtStep("tail_csv")
    /\ files' = files \cup {FileOf(Cur.op, Cur.tk)}
    /\ log' = Append(log, Cur)
    /\ pc' = pc + 1
    /\ UNCHANGED <<status, failed, outdir, env, cleanVars, dateVars, getVars>>

\* fig = make_graph(...); fig.write_html(...)
WriteHtml ==
    /\ AtStep("html")
    /\ files' = files \cup {FileOf("html", Cur.tk)}
    /\ log' = Append(log, Cur)
    /\ pc' = pc + 1
    /\ UNCHANGED <<status, failed, outdir, env, cleanVars, dateVars, getVars>>

\* try: pio.write_image(...) except Exception: print("PNG export skipped ...")
WritePng ==
    /\ AtStep("png")
    /\ \E ok \in BOOLEAN :
          IF ok
          THEN /\ files' = files \cup {FileOf("png", Cur.tk)}
               /\ log' = Append(log, Cur)
               /\ pc' = pc + 1
               /\ UNCHANGED <<status, failed>>
          ELSE /\ log' = Append(log, St("png_skipped", Cur.tk))
               /\ status' = OnPngError
               /\ failed' = IF OnPngError = "running" THEN failed ELSE Cur
               /\ pc' = IF OnPngError = "running" THEN pc + 1 ELSE pc
               /\ UNCHANGED files
    /\ UNCHANGED <<outdir, env, cleanVars, dateVars, getVars>>

\* print("All done! ..."), and main returns
Finish ==
    /\ AtStep("done")
    /\ status' = "returned"
    /\ UNCHANGED <<pc, log, files, failed, outdir, env, cleanVars, dateVars, getVars>>

-----------------------------------------------------------------------------
(* Specifications *)

InitClean == InitCleanVars /\ IdleDate /\ IdleGet /\ IdleMain
NextClean == AddRow \/ Clean \/ CleanAgain
SpecClean == InitClean /\ [][NextClean]_vars

InitDate == IdleClean /\ InitDateVars /\ IdleGet /\ IdleMain
NextDate == AddToken \/ Normalize
SpecDate == InitDate /\ [][NextDate]_vars

InitGet == IdleClean /\ IdleDate /\ InitGetVars /\ IdleMain
NextGet == AddTable \/ CallGetRevenueTable
SpecGet == InitGet /\ [][NextGet]_vars

InitMain == IdleClean /\ IdleDate /\ IdleGet /\ InitMainVars
NextMain ==
    CheckPackages \/ ensure_output_dir \/ Fetch \/ WriteCsv \/ WriteHtml \/ WritePng \/ Finish
SpecMain == InitMain /\ [][NextMain]_vars

-----------------------------------------------------------------------------
(* Properties of clean_revenue_table, under SpecClean *)

\* the cell of a row of raw in the column taken as revenue
RawRevenue(row) == row[rev_idx(raw) + 1]

\* a cell's text with every "," and "$" removed and the whitespace around it trimmed
Stripped(c) == Strip(RemoveChar(RemoveChar(StrOf(c), ","), "$"))

\* the text denotes a number
IsNumberText(t) == ParseNum(t).k \in {"num", "inf"}

\* the same number, whatever the dtype
SameNumber(a, b) ==
    /\ a.k = b.k
    /\ a.k \in {"num", "inf"}
    /\ a.k = "num" => a.m = b.m /\ a.e = b.e
    /\ a.k = "inf" => a.neg = b.neg

\* the rows of raw whose cell at column rev, stripped, is a number
NumericRows(rev) == SelectSeq(raw.rows, LAMBDA r : IsNumberText(Stripped(r[rev])))

\* records are, one for one and in order, the rows kept: the number the stripped
\* text at column rev denotes, and the normalized date of the same row
RecordsOf(records, kept, date, rev) ==
    /\ Len(records) = Len(kept)
    /\ \A i \in 1..Len(kept) :
          /\ SameNumber(records[i][2], ParseNum(Stripped(kept[i][rev])))
          /\ records[i][1] = Text(_norm_date(StrOf(kept[i][date])))

\* C1: the output holds exactly one record per input row whose stripped revenue
\* text is a number, in the order of the input rows, each with the number its
\* stripped text denotes and the date of its own row; no other row is kept.
C1_OneRecordPerNumericRow ==
    (phase # "build" /\ ~IsEmptyInput(raw)) =>
        /\ ~IsRaised(out)
        /\ RecordsOf(out.rows, NumericRows(rev_idx(raw) + 1), date_idx(raw) + 1, rev_idx(raw) + 1)

\* C1 witness: a non-numeric row dropped and "$1,234,500" after it kept as 1234500.
C1_Witness ==
    /\ phase = "cleaned"
    /\ Len(raw.rows) = 2
    /\ NCols(raw) = 2
    /\ RawRevenue(raw.rows[1]) = Text(T_abc)
    /\ RawRevenue(raw.rows[2]) = Text(T_money)
    /\ Len(out.rows) = 1
    /\ out.rows[1][2].k = "num" /\ out.rows[1][2].m = 1234500 /\ out.rows[1][2].e = 0

\* raw has a column named like a date and one named like revenue
HasNamedColumns ==
    /\ ~raw.isNone
    /\ \E i \in 1..NCols(raw) : Contains(Lower(LabelStr(raw.cols[i])), D_revenue)
    /\ \E i \in 1..NCols(raw) :
          \/ Contains(Lower(LabelStr(raw.cols[i])), D_date)
          \/ Contains(Lower(LabelStr(raw.cols[i])), D_period)

\* C2 as stated: with a date-like and a revenue-like column the call does not
\* raise and every revenue returned is a finite number >= 0.
C2_FiniteNonNegative ==
    (phase # "build" /\ HasNamedColumns) =>
        /\ ~IsRaised(out)
        /\ \A i \in 1..Len(out.rows) : out.rows[i][2].k = "num" /\ out.rows[i][2].m >= 0

\* C2 amended: with a date-like and a revenue-like column the call does not raise
\* and every revenue returned is a number, never NaN, None or text; it may be
\* negative or infinite.
C2_NumberNotNaN ==
    (phase # "build" /\ HasNamedColumns) =>
        /\ ~IsRaised(out)
        /\ \A i \in 1..Len(out.rows) : out.rows[i][2].k \in {"num", "inf"}

\* C2 witness: a row with revenue text "-5" kept with the value -5, beside a row
\* whose revenue did not parse.
C2_Witness ==
    /\ phase = "cleaned"
    /\ HasNamedColumns
    /\ Len(raw.rows) = 2
    /\ Len(out.rows) = 1
    /\ out.rows[1][2].k = "num" /\ out.rows[1][2].m = -5

\* C3: cleaning the output again gives the same columns, the same rows in the
\* same order, the same Date strings and the same Revenue numbers.
C3_Idempotent ==
    phase = "recleaned" =>
        /\ ~IsRaised(out2)
        /\ out2.cols = out.cols
        /\ Len(out2.rows) = Len(out.rows)
        /\ \A i \in 1..Len(out.rows) :
              /\ out2.rows[i][1] = out.rows[i][1]
              /\ SameNumber(out2.rows[i][2], out.rows[i][2])

\* C3 witness: a second pass over a float64 column holding a whole number and a
\* fraction, whose strings ("1234500.0", "1.5") differ from the page's texts.
C3_Witness ==
    /\ phase = "recleaned"
    /\ Len(out.rows) = 2
    /\ \E i \in 1..2 : out.rows[i][2].k = "num" /\ out.rows[i][2].f /\ out.rows[i][2].e = 0
    /\ \E i \in 1..2 : out.rows[i][2].k = "num" /\ out.rows[i][2].e > 0
    /\ Len(out2.rows) = 2

\* C10: an absent input, or one with no row or no column, gives without raising
\* a frame with exactly the columns Date, Revenue in that order and no row.
C10_EmptyInputEmptyTable ==
    (phase # "build" /\ (raw.isNone \/ Len(raw.rows) = 0 \/ Len(raw.cols) = 0)) =>
        /\ ~IsRaised(out)
        /\ out.cols = <<StrLabel(D_Date), StrLabel(D_Revenue)>>
        /\ out.rows = <<>>

\* C10 witness: a frame with rows and no column has been cleaned.
C10_Witness ==
    /\ phase = "cleaned"
    /\ ~raw.isNone
    /\ Len(raw.cols) = 0
    /\ Len(raw.rows) = 2
    /\ ~IsRaised(out)

-----------------------------------------------------------------------------
(* Properties of _norm_date, under SpecDate *)

\* t is a 4-digit year, optionally followed by -MM or -MM-DD
IsDateLike(t) ==
    /\ Len(t) \in {4, 7, 10}
    /\ \A i \in 1..Len(t) : IF i \in {5, 8} THEN t[i] = "-" ELSE IsDigit(t[i])

\* the date-like substrings of s, each as <<start, length>>
DateLikeIn(s) ==
    {h \in (1..Len(s)) \X {4, 7, 10} :
        h[1] + h[2] - 1 <= Len(s) /\ IsDateLike(SubSeq(s, h[1], h[1] + h[2] - 1))}

Sub(s, h) == SubSeq(s, h[1], h[1] + h[2] - 1)

\* C4 as stated: the result is the longest date-like substring of the cell, and
\* the cell itself when it has none.
C4_LongestDateLike ==
    dphase = "done" =>
        IF DateLikeIn(cell) = {} THEN normed = cell
        ELSE \E h \in DateLikeIn(cell) :
                /\ normed = Sub(cell, h)
                /\ \A g \in DateLikeIn(cell) : g[2] <= h[2]

\* C4 amended: the result is the date-like substring that starts leftmost in the
\* cell and is the longest of those starting there; the cell itself when it has
\* none.
C4_LeftmostThenLongest ==
    dphase = "done" =>
        IF DateLikeIn(cell) = {} THEN normed = cell
        ELSE \E h \in DateLikeIn(cell) :
                /\ normed = Sub(cell, h)
                /\ \A g \in DateLikeIn(cell) :
                      h[1] <= g[1] /\ (g[1] = h[1] => g[2] <= h[2])

\* C4 witness: a normalized cell with a bare year before a longer date-like
\* substring; the result is the year.
C4_Witness ==
    /\ dphase = "done"
    /\ \E g, h \in DateLikeIn(cell) :
          /\ g[1] + g[2] <= h[1]
          /\ h[2] > g[2]
          /\ normed = Sub(cell, g)
    /\ Len(normed) = 4

-----------------------------------------------------------------------------
(* Properties of get_revenue_table, under SpecGet *)

\* C5: without a table of the site's class, the frame handed to
\* clean_revenue_table is one of the page's tables; it has at least two columns
\* and a column named like revenue whenever some table has, wherever that table
\* stands, and otherwise no table is wider than it.
C5_FallbackSelection ==
    (gphase = "done" /\ net_ok /\ ~doc.site.present /\ doc.tables # <<>>) =>
        /\ \E i \in 1..Len(doc.tables) : handed = doc.tables[i]
        /\ IF \E j \in 1..Len(doc.tables) : Qualifies(doc.tables[j])
           THEN Qualifies(handed)
           ELSE \A j \in 1..Len(doc.tables) : NCols(doc.tables[j]) <= NCols(handed)

\* C5 witness: three tables of which only the second qualifies, and it is the
\* one handed on.
C5_Witness ==
    /\ gphase = "done" /\ net_ok /\ ~doc.site.present
    /\ Len(doc.tables) = 3
    /\ ~Qualifies(doc.tables[1]) /\ Qualifies(doc.tables[2]) /\ ~Qualifies(doc.tables[3])
    /\ handed = doc.tables[2]

\* C6: after a successful fetch get_revenue_table does not raise, and a page
\* without any table gives the empty table with the columns Date and Revenue.
C6_NoRaiseAfterFetch ==
    (gphase = "done" /\ net_ok) =>
        /\ ~IsRaised(result)
        /\ (~doc.site.present /\ doc.tables = <<>>) => result = EmptyRevenueTable

-----------------------------------------------------------------------------
(* Properties of main, under SpecMain *)

\* the place of a step in a run that interleaves nothing: Tesla's data, then
\* GameStop's data, then Tesla's dashboard, then GameStop's
Order(e) ==
    CASE e.op = "mkdir" -> 0
      [] e.op = "stock" -> IF e.tk = "TSLA" THEN 1 ELSE 5
      [] e.op = "head_csv" -> IF e.tk = "TSLA" THEN 2 ELSE 6
      [] e.op = "revenue" -> IF e.tk = "TSLA" THEN 3 ELSE 7
      [] e.op = "tail_csv" -> IF e.tk = "TSLA" THEN 4 ELSE 8
      [] e.op = "html" -> IF e.tk = "TSLA" THEN 9 ELSE 11
      [] e.op \in {"png", "png_skipped"} -> IF e.tk = "TSLA" THEN 10 ELSE 12

Logged(e) == \E i \in 1..Len(log) : log[i] = e

\* C7 as stated: no step of GameStop happens before Tesla's dashboard is written.
C7_TickerByTicker ==
    \A i \in 1..Len(log) :
        log[i].tk = "GME" => \E j \in 1..(i - 1) : log[j] = St("html", "TSLA")

\* C7 amended: the steps run one at a time in this order: Tesla's price fetch,
\* CSV, revenue fetch, CSV; then the same four for GameStop; then Tesla's HTML
\* dashboard and PNG attempt; then GameStop's.  A run that returns has done all
\* of them.
C7_DataThenDashboards ==
    /\ \A i, j \in 1..Len(log) : i < j => Order(log[i]) < Order(log[j])
    /\ \A i \in 1..Len(log) : \A n \in 0..(Order(log[i]) - 1) :
          \E j \in 1..(i - 1) : Order(log[j]) = n
    /\ status = "returned" => Len(log) = 13

\* C7 witness: GameStop's revenue has been fetched and its CSV written while
\* Tesla's dashboard is not yet written.
C7_Witness ==
    /\ Logged(St("tail_csv", "GME"))
    /\ ~Logged(St("html", "TSLA"))
    /\ status = "running"

OutputsOf(tk) == {FileOf("head_csv", tk), FileOf("tail_csv", tk), FileOf("html", tk)}

\* C8 as stated: when a revenue fetch fails, every CSV and the HTML dashboard of
\* a ticker whose own fetches succeed are still produced.
C8_OtherTickerUnaffected ==
    (status = "raised" /\ failed.op = "revenue") =>
        \A tk \in Tickers :
            (env.net[St("stock", tk)] /\ env.net[St("revenue", tk)]) => OutputsOf(tk) \subseteq files

\* C8 amended: a failed revenue fetch ends the whole run with the exception: the
\* files written before it stay and nothing else is produced, so no dashboard
\* of either ticker, and no GameStop file at all when Tesla's fetch failed.
C8_FetchErrorEndsRun ==
    failed.op = "revenue" =>
        /\ status = "raised"
        /\ files = IF failed.tk = "TSLA"
                   THEN {FileOf("head_csv", "TSLA")}
                   ELSE {FileOf("head_csv", "TSLA"), FileOf("tail_csv", "TSLA"),
                         FileOf("head_csv", "GME")}

\* C8 witness: GameStop's revenue fetch failed in a run where both of Tesla's
\* fetches succeeded.
C8_Witness ==
    /\ failed = St("revenue", "GME")
    /\ status = "raised"
    /\ Logged(St("stock", "TSLA")) /\ Logged(St("revenue", "TSLA"))

\* C9: only a failed fetch ends a run with an exception, whatever the PNG
\* exports do; a run that returns has written both HTML dashboards and the four
\* CSV files; and a ticker's HTML dashboard is written before its PNG export is
\* attempted.
C9_PngFailureNotFatal ==
    /\ status = "raised" => failed.op \in {"stock", "revenue"} /\ ~env.net[failed]
    /\ status = "returned" =>
          \A tk \in Tickers : OutputsOf(tk) \subseteq files
    /\ \A i \in 1..Len(log) :
          log[i].op \in {"png", "png_skipped"} =>
              \E j \in 1..(i - 1) : log[j] = St("html", log[i].tk)

\* C9 witness: a run that returned after both PNG exports failed.
C9_Witness ==
    /\ status = "returned"
    /\ Logged(St("png_skipped", "TSLA")) /\ Logged(St("png_skipped", "GME"))
    /\ FileOf("html", "TSLA") \in files /\ FileOf("html", "GME") \in files

=============================================================================
